---- MODULE Spec2Model ----
(***************************************************************************)
(* The research workflow of agentic-research: the LangGraph pipeline of    *)
(* ResearchWorkflow (plan -> create_tasks -> execute_research (loop) ->    *)
(* update_rag -> generate_report), the task queue of TaskManagerAgent and  *)
(* the two deque-backed memories of MemoryManager.                         *)
(*                                                                         *)
(* Python dicts are records, {} is the empty function <<>>, lists are      *)
(* sequences, None is the value None.  Task dicts are objects on a heap    *)
(* (heap) and every task list is a sequence of references into it, because *)
(* the code shares the dicts between the graph state and working memory    *)
(* and mark_completed mutates them in place.  The timestamp of a memory    *)
(* entry (datetime.now()) is left out: nothing in the code reads it back   *)
(* except the textual summary.                                             *)
(***************************************************************************)
EXTENDS Integers, Sequences, FiniteSets, TLC

VARIABLES
    config,      \* ResearchConfig: enable_rag, memory_enabled, max_iterations
    pc,          \* the node the graph runs next; "idle", "returned", "raised"
    state,       \* the graph's channel values (ResearchState)
    heap,        \* task dicts, by reference
    working,     \* WorkingMemory._memory
    wm_size,     \* WorkingMemory.max_size
    short_term,  \* ShortTermMemory._sessions
    st_size,     \* ShortTermMemory.max_size
    final,       \* the dict run() returned, None before
    visits,      \* per node, how often it ran in this run (counted up to 2)
    rag_calls,   \* per RAGAgent method, how often it was called (up to 2)
    produced,    \* what the stubbed agents returned in this run
    before,      \* short-term memory when the current run started
    runs,        \* runs started on this system instance
    harness      \* the scenario: its input bounds, and for the specifications
                 \* of single operations their inputs' history and result

vars == <<config, pc, state, heap, working, wm_size, short_term, st_size,
          final, visits, rag_calls, produced, before, runs, harness>>

----
(* Bounds of the model *)

\* longest task list the task-creation model call returns
MaxTasks == 2
\* largest configured max_iterations
MaxIter == 2
\* research runs made one after another on one system instance
MaxRuns == 2
\* largest capacity of a memory constructed directly
MaxCap == 2
\* insertions beyond the capacity
MaxExtra == 2
\* the capacity of the short-term memory searched for similar sessions
MaxSessions == 3

(* Program constants *)

\* Settings.max_working_memory_size
DefaultWorkingSize == 5
\* Settings.max_short_term_memory_size
DefaultShortTermSize == 10
\* MemoryManager.get_context: get_recent_sessions(n=3)
RecentSessions == 3
\* _should_continue_research: state.get("max_iterations", 5)
DefaultMaxIterations == 5

\* ContentFetchTool.extract_main_content: max_length
MaxContentLength == 5000

----
(* Python values *)

None == "None"
EmptyDict == <<>>

\* dict.get(key, default)
Get(d, key, default) == IF key \in DOMAIN d THEN d[key] ELSE default

Range(s) == {s[i] : i \in DOMAIN s}

\* list[-n:] for n >= 0; Python's list[-0:] is the whole list
LastN(s, n) ==
    IF n = 0 \/ n >= Len(s) THEN s
    ELSE SubSeq(s, Len(s) - n + 1, Len(s))

\* sequences over S of length at most n
SeqUpTo(S, n) == UNION {[1..k -> S] : k \in 0..n}

Min(a, b) == IF a <= b THEN a ELSE b

----
(* collections.deque(maxlen=max_size).append *)

\* a list that only grows
DequeAppend_Unbounded(d, max_size, x) == Append(d, x)

DequeAppend(d, max_size, x) ==
    IF max_size = 0 THEN d
    ELSE IF Len(d) = max_size THEN Append(Tail(d), x)
    ELSE Append(d, x)

\* WorkingMemory.add: the stored item
MemoryItem(item_type, content) ==
    [type |-> item_type, content |-> content, metadata |-> EmptyDict]

WorkingMemory_add(mem, max_size, item_type, content) ==
    DequeAppend(mem, max_size, MemoryItem(item_type, content))

\* ShortTermMemory.save_session: the stored record
SessionRecord(query, plan, results, report) ==
    [query |-> query, plan |-> plan, results |-> results, report |-> report,
     metadata |-> EmptyDict]

ShortTermMemory_save_session(mem, max_size, query, plan, results, report) ==
    DequeAppend(mem, max_size, SessionRecord(query, plan, results, report))

\* WorkingMemory.get_recent(n) with an integer n: list(self._memory)[-n:]
get_recent(mem, n) == LastN(mem, n)

\* WorkingMemory.get_recent() with n = None: list(self._memory)
get_recent_all(mem) == mem

\* a snapshot whose lists are the stores themselves
SnapshotAfterInsert_LiveView(snapshot, wm, st) ==
    [snapshot EXCEPT !.working_memory = wm,
                     !.short_term_memory = LastN(st, RecentSessions)]

\* get_recent and get_recent_sessions return new lists (list(...)): a snapshot
\* returned earlier, after an insertion into the stores
SnapshotAfterInsert(snapshot, wm, st) == snapshot

\* WorkingMemory.get_recent(), ShortTermMemory.get_recent_sessions(n)
get_recent_sessions(mem, n) == LastN(mem, n)

\* WorkingMemory.get_context_summary: one line per item, type and content
get_context_summary(mem) == [i \in DOMAIN mem |-> mem[i].type]

\* ShortTermMemory.get_summary: one line per session, its query
get_summary(mem) == [i \in DOMAIN mem |-> mem[i].query]

\* str.lower() of a word; a query string is the sequence of its
\* whitespace-separated words
Lower(w) ==
    CASE w = "Deep" -> "deep"
      [] w = "Learning" -> "learning"
      [] OTHER -> w

\* set(query.lower().split())
QueryWords(query) == {Lower(query[i]) : i \in DOMAIN query}

\* intersection / union if union > 0 else 0, as numerator and denominator
Jaccard(query_words, session_words) ==
    IF Cardinality(query_words \cup session_words) > 0
    THEN <<Cardinality(query_words \cap session_words),
           Cardinality(query_words \cup session_words)>>
    ELSE <<0, 1>>

\* a >= b for two such fractions
SimilarityGeq(a, b) == a[1] * b[2] >= b[1] * a[2]

\* a sort by rising similarity
InsertBySimilarity_Ascending(sorted, x) ==
    LET k == Cardinality({i \in DOMAIN sorted :
                 SimilarityGeq(x.similarity, sorted[i].similarity)})
    IN  SubSeq(sorted, 1, k) \o <<x>> \o SubSeq(sorted, k + 1, Len(sorted))

\* scored_sessions.sort(key=lambda x: x[0], reverse=True), on a list sorted
\* by falling similarity:
\* the sort is stable: x goes behind every entry whose similarity is at
\* least its own
InsertBySimilarity(sorted, x) ==
    LET k == Cardinality({i \in DOMAIN sorted :
                 SimilarityGeq(sorted[i].similarity, x.similarity)})
    IN  SubSeq(sorted, 1, k) \o <<x>> \o SubSeq(sorted, k + 1, Len(sorted))

RECURSIVE SortScoredPrefix(_, _)
SortScoredPrefix(scored, n) ==
    IF n = 0 THEN <<>>
    ELSE InsertBySimilarity(SortScoredPrefix(scored, n - 1), scored[n])

\* list[:k] keeps the first k entries, all but the last -k for k < 0
SliceTo(s, k) ==
    IF k >= 0 THEN SubSeq(s, 1, Min(k, Len(s)))
    ELSE SubSeq(s, 1, Len(s) + k)

\* slicing that drops the entries of similarity zero
TopSessions_PositiveOnly(sorted, top_k) ==
    SliceTo(SelectSeq(sorted, LAMBDA x : x.similarity[1] > 0), top_k)

\* scored_sessions[:top_k]
TopSessions(sorted, top_k) == SliceTo(sorted, top_k)

\* ShortTermMemory.find_similar_queries: the returned sessions, as their
\* positions in the store
find_similar_queries(mem, query, top_k) ==
    LET scored_sessions ==
            [i \in DOMAIN mem |->
                [similarity |-> Jaccard(QueryWords(query),
                                        QueryWords(mem[i].query)),
                 session |-> i]]
        sorted == SortScoredPrefix(scored_sessions, Len(scored_sessions))
        top == TopSessions(sorted, top_k)
    IN  [i \in DOMAIN top |-> top[i].session]

\* MemoryManager.find_relevant_history
find_relevant_history(mem, query, top_k) ==
    find_similar_queries(mem, query, top_k)

\* MemoryManager.get_context
get_context(wm, st) ==
    [working_memory |-> wm,
     short_term_memory |-> get_recent_sessions(st, RecentSessions),
     working_summary |-> get_context_summary(wm),
     short_term_summary |-> get_summary(st)]

----
(* TaskManagerAgent *)

\* list.sort(key=..., reverse=True) is stable: into a list sorted by falling
\* priority, r goes behind every element whose priority is at least its own
InsertByPriority(h, sorted, r) ==
    LET k == Cardinality({i \in DOMAIN sorted :
                Get(h[sorted[i]], "priority", 0) >= Get(h[r], "priority", 0)})
    IN  SubSeq(sorted, 1, k) \o <<r>> \o SubSeq(sorted, k + 1, Len(sorted))

\* the first n elements of refs, sorted (the recursive result is bound as a
\* value so that it is computed once)
RECURSIVE SortPrefix(_, _, _)
SortPrefix(h, refs, n) ==
    IF n = 0 THEN <<>>
    ELSE CHOOSE out \in {InsertByPriority(h, rest, refs[n]) :
                            rest \in {SortPrefix(h, refs, n - 1)}} : TRUE

SortByPriority(h, refs) == SortPrefix(h, refs, Len(refs))

IsPending(t) == Get(t, "status", None) = "pending"

\* no task: the reference 0
NoTask == 0

\* the first pending task in list order
get_next_task_ListOrder(h, refs) ==
    CHOOSE next \in
        {IF pending_tasks = <<>> THEN NoTask ELSE Head(pending_tasks) :
            pending_tasks \in {SelectSeq(refs, LAMBDA r : IsPending(h[r]))}} :
        TRUE

\* the highest-priority task whatever its status
get_next_task_AnyStatus(h, refs) ==
    CHOOSE next \in
        {IF refs = <<>> THEN NoTask ELSE Head(SortByPriority(h, refs))} : TRUE

\* TaskManagerAgent.get_next_task, on a list of references
get_next_task(h, refs) ==
    CHOOSE next \in
        {IF pending_tasks = <<>> THEN NoTask
         ELSE Head(SortByPriority(h, pending_tasks)) :
            pending_tasks \in {SelectSeq(refs, LAMBDA r : IsPending(h[r]))}} :
        TRUE

\* get_next_task filters into a new list and sorts that one: the list it was
\* given, after the call
TasksAfterGetNext_SortInPlace(h, refs) == SortByPriority(h, refs)

TasksAfterGetNext(h, refs) == refs

\* what the model answers to the update prompt: a JSON object with or without
\* a "tasks" key, or text that is no JSON
UpdateResponses ==
    {[kind |-> "json", value |-> [tasks |-> <<>>]],
     [kind |-> "json",
      value |-> [tasks |-> <<[id |-> "n1", description |-> "d",
                              status |-> "pending", priority |-> 1]>>]],
     [kind |-> "json", value |-> [note |-> "nothing to change"]],
     [kind |-> "text"]}

\* prompt | llm | JsonOutputParser: the parsed object, or the parser's exception
chain_ainvoke(response) ==
    IF response.kind = "json"
    THEN [outcome |-> "returned", value |-> response.value]
    ELSE [outcome |-> "raised", error |-> "Invalid json output"]

\* TaskManagerAgent.update_tasks: result.get("tasks", current_tasks), with no
\* handler around the chain
update_tasks(h, current_tasks, response) ==
    LET result == chain_ainvoke(response)
    IN  IF result.outcome = "raised" THEN result
        ELSE IF "tasks" \in DOMAIN result.value
        THEN [outcome |-> "returned", current |-> FALSE,
              tasks |-> result.value.tasks]
        ELSE [outcome |-> "returned", current |-> TRUE,
              tasks |-> [i \in DOMAIN current_tasks |-> h[current_tasks[i]]]]

\* mark_completed stopping at the first task of that id
mark_completed_FirstOnly(h, refs, task_id) ==
    LET hits == {i \in DOMAIN refs : Get(h[refs[i]], "id", None) = task_id}
    IN  [r \in DOMAIN h |->
            IF hits # {} /\ r = refs[CHOOSE i \in hits : \A j \in hits : i <= j]
            THEN [k \in DOMAIN h[r] \cup {"status"} |->
                     IF k = "status" THEN "completed" ELSE h[r][k]]
            ELSE h[r]]

\* mark_completed setting the priority of the task as well
mark_completed_ResetsPriority(h, refs, task_id) ==
    [r \in DOMAIN h |->
        IF r \in Range(refs) /\ Get(h[r], "id", None) = task_id
        THEN [k \in DOMAIN h[r] \cup {"status", "priority"} |->
                 IF k = "status" THEN "completed"
                 ELSE IF k = "priority" THEN 0 ELSE h[r][k]]
        ELSE h[r]]

\* TaskManagerAgent.mark_completed: the heap after the in-place assignment
\* (the list itself is returned as it is)
mark_completed(h, refs, task_id) ==
    [r \in DOMAIN h |->
        IF r \in Range(refs) /\ Get(h[r], "id", None) = task_id
        THEN [k \in DOMAIN h[r] \cup {"status"} |->
                 IF k = "status" THEN "completed" ELSE h[r][k]]
        ELSE h[r]]

----
(* What the external services can answer *)

Queries == {"Q", "Q2"}

\* the queries of the runs made one after another
SessionQueries == <<"Q", "Q2", "Q3", "Q4">>

\* PlanningAgent.create_plan: the parsed JSON of the model's answer
Plans == {[objective |-> "O", search_queries |-> <<"q1", "q2">>],
          [objective |-> "O2", search_queries |-> <<>>]}

\* task dicts the task-creation model call can put in its list
TaskPool ==
    {[id |-> "t1", description |-> "q1", type |-> "search", priority |-> 5,
      status |-> "pending", dependencies |-> {}],
     [id |-> "t2", description |-> "fetch", type |-> "fetch", priority |-> 3,
      status |-> "pending", dependencies |-> {"t1"}, urls |-> <<"u1">>],
     [id |-> "t3", description |-> "analyze", type |-> "analyze", priority |-> 5,
      status |-> "pending", dependencies |-> {"t2"}],
     [id |-> "t4", description |-> "write", type |-> "synthesize", priority |-> 1,
      status |-> "completed", dependencies |-> {}],
     [description |-> "q2", type |-> "search", priority |-> 2,
      status |-> "pending", dependencies |-> {}]}

\* TaskManagerAgent.create_tasks: result.get("tasks", [])
TaskLists(n) == SeqUpTo(TaskPool, n)

\* how the search and the fetch provider answer during one research step
ToolEnvs == [search : {"ok", "error"}, fetch : {"ok", "error"}]

\* ReportGeneratorAgent.generate_report: response.content
Reports == {"report O", ""}

\* DocumentRetriever.get_context
RagContexts == {"", "context"}

\* TavilySearchTool.search
TavilySearchTool_search(query, env) ==
    IF env.search = "ok"
    THEN [query |-> query,
          results |-> <<[title |-> "T", url |-> "u1", content |-> "text"]>>,
          answer |-> "A", images |-> <<>>]
    ELSE [query |-> query, results |-> <<>>, error |-> "search failed"]

\* a text of n characters
Text(n) == [i \in 1..n |-> "x"]

\* soup.get_text of the page at url: the page the environment serves, a
\* short page when it names none
PageText(url, env) ==
    IF "pages" \in DOMAIN env THEN env.pages[url] ELSE Text(Len(<<"p", "a", "g", "e">>))

\* ContentFetchTool.fetch
ContentFetchTool_fetch(url, env) ==
    IF env.fetch = "ok"
    THEN LET text == PageText(url, env)
         IN  [url |-> url, title |-> "T", content |-> text,
              status |-> "success", length |-> Len(text)]
    ELSE [url |-> url, status |-> "error", error |-> "fetch failed"]

\* ContentFetchTool.fetch_multiple
fetch_multiple(urls, env) ==
    [i \in DOMAIN urls |-> ContentFetchTool_fetch(urls[i], env)]

----
(* ResearchAgent *)

execute_search(query, env) ==
    LET results == TavilySearchTool_search(query, env)
    IN  [query |-> query,
         results |-> Get(results, "results", <<>>),
         answer |-> Get(results, "answer", ""),
         source |-> "tavily_search"]

\* analyze_results of an empty result list (no task of the pool carries results)
analyze_results(results) ==
    [key_points |-> <<>>, total_sources |-> Len(results), content_length |-> 0]

\* every task without a known type run as a search
execute_task_SearchByDefault(task, env) ==
    LET task_type == Get(task, "type", "search")
    IN  IF task_type = "fetch"
        THEN [task_id |-> Get(task, "id", None),
              content |-> fetch_multiple(Get(task, "urls", <<>>), env),
              source |-> "content_fetch"]
        ELSE IF task_type = "analyze"
        THEN [task_id |-> Get(task, "id", None),
              analysis |-> analyze_results(Get(task, "results", <<>>)),
              source |-> "analysis"]
        ELSE execute_search(Get(task, "description", ""), env)

execute_task(task, env) ==
    LET task_type == Get(task, "type", "search")
    IN  IF task_type = "search"
        THEN execute_search(Get(task, "description", ""), env)
        ELSE IF task_type = "fetch"
        THEN [task_id |-> Get(task, "id", None),
              content |-> fetch_multiple(Get(task, "urls", <<>>), env),
              source |-> "content_fetch"]
        ELSE IF task_type = "analyze"
        THEN [task_id |-> Get(task, "id", None),
              analysis |-> analyze_results(Get(task, "results", <<>>)),
              source |-> "analysis"]
        ELSE [task_id |-> Get(task, "id", None),
              error |-> "Unknown task type"]

\* ResearchAgent.process_for_rag: a content shorter than chunk_size is one chunk
process_for_rag(content, metadata) ==
    <<[content |-> content,
       metadata |-> [url |-> metadata.url, title |-> metadata.title,
                     chunk_index |-> 0]]>>

----
(* ResearchState and the graph *)

Nodes == {"plan", "create_tasks", "execute_research", "update_rag",
          "generate_report"}

RagMethods == {"add_documents", "retrieve_context"}

\* ResearchState: the channels declared Annotated[list, add]
AddChannels == {"tasks", "search_results", "documents"}

\* every channel takes the update as its new value
ApplyUpdate_LastValueOnly(s, update) ==
    [k \in DOMAIN s |-> IF k \in DOMAIN update THEN update[k] ELSE s[k]]

\* only the reducer channels are written
ApplyUpdate_ReducersOnly(s, update) ==
    [k \in DOMAIN s |->
        IF k \in DOMAIN update /\ k \in AddChannels THEN s[k] \o update[k]
        ELSE s[k]]

\* a node's returned dict written to the channels: a reducer channel gets
\* old + update, every other channel the update
ApplyUpdate(s, update) ==
    [k \in DOMAIN s |->
        IF k \notin DOMAIN update THEN s[k]
        ELSE IF k \in AddChannels THEN s[k] \o update[k]
        ELSE update[k]]

\* ResearchWorkflow.run: initial_state
InitialState(query, cfg) ==
    [query |-> query, llm_provider |-> "openai", plan |-> EmptyDict,
     tasks |-> <<>>, search_results |-> <<>>, documents |-> <<>>,
     rag_context |-> "", memory_context |-> EmptyDict, report |-> "",
     iteration |-> 0, max_iterations |-> cfg.max_iterations,
     completed |-> FALSE, error |-> None]

\* the except branch setting the error alone
RunExcept_ErrorOnly(initial_state, e) ==
    [outcome |-> "returned", value |-> [initial_state EXCEPT !.error = e]]

\* the except branch returning the state reached so far
RunExcept_FromState(initial_state, e) ==
    [outcome |-> "returned",
     value |-> [state EXCEPT !.error = e, !.completed = TRUE]]

\* ResearchWorkflow.run: the except branch
RunExcept(initial_state, e) ==
    [outcome |-> "returned",
     value |-> [initial_state EXCEPT !.error = e, !.completed = TRUE]]

\* the cap compared with > instead of >=
should_continue_research_CapOff(s, cfg, h) ==
    LET pending_tasks == SelectSeq(Get(s, "tasks", <<>>),
                                   LAMBDA r : IsPending(h[r]))
    IN  IF Get(s, "iteration", 0) > Get(s, "max_iterations", DefaultMaxIterations)
           \/ pending_tasks = <<>>
        THEN IF cfg.enable_rag THEN "rag" ELSE "report"
        ELSE "continue"

\* the test for pending tasks inverted
should_continue_research_Inverted(s, cfg, h) ==
    LET pending_tasks == SelectSeq(Get(s, "tasks", <<>>),
                                   LAMBDA r : IsPending(h[r]))
    IN  IF Get(s, "iteration", 0) >= Get(s, "max_iterations", DefaultMaxIterations)
           \/ pending_tasks # <<>>
        THEN IF cfg.enable_rag THEN "rag" ELSE "report"
        ELSE "continue"

\* retrieval chosen without looking at enable_rag
should_continue_research_AlwaysRag(s, cfg, h) ==
    LET pending_tasks == SelectSeq(Get(s, "tasks", <<>>),
                                   LAMBDA r : IsPending(h[r]))
    IN  IF Get(s, "iteration", 0) >= Get(s, "max_iterations", DefaultMaxIterations)
           \/ pending_tasks = <<>>
        THEN "rag"
        ELSE "continue"

\* ResearchWorkflow._should_continue_research
should_continue_research(s, cfg, h) ==
    IF Get(s, "iteration", 0) >= Get(s, "max_iterations", DefaultMaxIterations)
    THEN IF cfg.enable_rag THEN "rag" ELSE "report"
    ELSE LET tasks == Get(s, "tasks", <<>>)
             pending_tasks == SelectSeq(tasks, LAMBDA r : IsPending(h[r]))
         IN  IF pending_tasks = <<>>
             THEN IF cfg.enable_rag THEN "rag" ELSE "report"
             ELSE "continue"

\* the retrieval node wired back to the research node
Edge_RagToResearch(node, s, cfg, h) ==
    CASE node = "plan" -> "create_tasks"
      [] node = "create_tasks" -> "execute_research"
      [] node = "execute_research" ->
            (IF cfg.enable_rag THEN "update_rag" ELSE "generate_report")
      [] node = "update_rag" -> "execute_research"
      [] node = "generate_report" -> "END"

\* ResearchWorkflow._build_graph: the node after `node`, "END" after the last
Edge(node, s, cfg, h) ==
    CASE node = "plan" -> "create_tasks"
      [] node = "create_tasks" -> "execute_research"
      [] node = "execute_research" ->
            LET d == should_continue_research(s, cfg, h)
            IN  (CASE d = "continue" -> "execute_research"
                   [] d = "rag" -> "update_rag"
                   [] d = "report" -> "generate_report")
      [] node = "update_rag" -> "generate_report"
      [] node = "generate_report" -> "END"

Bump(counts, k) == [counts EXCEPT ![k] = Min(@ + 1, 2)]

NoVisits == [n \in Nodes |-> 0]
NoCalls == [m \in RagMethods |-> 0]
NothingProduced == [plan |-> EmptyDict, report |-> None, report_plan |-> EmptyDict,
                    report_results |-> <<>>, saved |-> FALSE, raised |-> None]

\* the graph took the step of `node`, which returned `update`: the channels are
\* written, and run() returns the channel values when the graph reaches END
Step(node, update, h) ==
    \E s \in {ApplyUpdate(state, update)} :
    \E next \in {Edge(node, s, config, h)} :
        /\ state' = s
        /\ visits' = Bump(visits, node)
        /\ IF next = "END"
           THEN pc' = "returned" /\ final' = s
           ELSE pc' = next /\ final' = final

\* `node` raised e: ainvoke raises it and run() catches it
Raise(node, e) ==
    LET r == RunExcept(InitialState(state.query, config), e)
    IN  /\ visits' = Bump(visits, node)
        /\ produced' = [produced EXCEPT !.raised = e]
        /\ pc' = r.outcome
        /\ final' = r.value
        /\ UNCHANGED state

----
(* ResearchWorkflow: the nodes *)

\* AgenticResearchSystem.research -> ResearchWorkflow.run, up to ainvoke
StartRun ==
    /\ harness.op = "workflow"
    /\ pc \in {"idle", "returned"}
    /\ runs < Len(harness.queries)
    /\ \E query \in harness.queries[runs + 1] :
          state' = ApplyUpdate(InitialState(query, config),
                               InitialState(query, config))
    /\ pc' = "plan"
    /\ final' = EmptyDict
    /\ visits' = NoVisits
    /\ rag_calls' = NoCalls
    /\ produced' = NothingProduced
    /\ before' = short_term
    /\ runs' = runs + 1
    /\ UNCHANGED <<config, heap, working, wm_size, short_term, st_size, harness>>

\* _plan_node, the planning agent answering with a plan
PlanNode ==
    /\ pc = "plan"
    /\ \E plan \in harness.plans :
          LET memory_context ==
                  IF config.memory_enabled THEN get_context(working, short_term)
                  ELSE EmptyDict
          IN  /\ working' = IF config.memory_enabled
                            THEN WorkingMemory_add(working, wm_size, "plan", plan)
                            ELSE working
              /\ produced' = [produced EXCEPT !.plan = plan]
              /\ Step("plan",
                      [plan |-> plan, memory_context |-> memory_context,
                       iteration |-> 0,
                       max_iterations |-> config.max_iterations,
                       completed |-> FALSE], heap)
    /\ UNCHANGED <<config, heap, wm_size, short_term, st_size, rag_calls,
                   before, runs, harness>>

\* _plan_node, create_plan raising (model call or JSON parse)
PlanNodeRaises ==
    /\ pc = "plan"
    /\ Raise("plan", "plan failed")
    /\ UNCHANGED <<config, heap, working, wm_size, short_term, st_size,
                   rag_calls, before, runs, harness>>

\* _create_tasks_node: the parsed task dicts are new objects
CreateTasksNode ==
    /\ pc = "create_tasks"
    /\ \E tasks \in harness.task_lists :
          LET refs == [i \in 1..Len(tasks) |-> Len(heap) + i]
              h == heap \o tasks
          IN  /\ heap' = h
              /\ working' = IF config.memory_enabled
                            THEN WorkingMemory_add(working, wm_size, "tasks", refs)
                            ELSE working
              /\ Step("create_tasks", [tasks |-> refs], h)
    /\ UNCHANGED <<config, wm_size, short_term, st_size, rag_calls, produced,
                   before, runs, harness>>

\* _create_tasks_node, create_tasks raising
CreateTasksNodeRaises ==
    /\ pc = "create_tasks"
    /\ Raise("create_tasks", "create_tasks failed")
    /\ UNCHANGED <<config, heap, working, wm_size, short_term, st_size,
                   rag_calls, before, runs, harness>>

\* _execute_research_node: the documents built from one result
ResultDocuments(result) ==
    IF config.enable_rag /\ "results" \in DOMAIN result
    THEN LET items == SelectSeq(result.results,
                                LAMBDA item : "content" \in DOMAIN item)
             chunks == [i \in DOMAIN items |->
                          process_for_rag(items[i].content,
                              [url |-> Get(items[i], "url", None),
                               title |-> Get(items[i], "title", None)])[1]]
         IN  chunks
    ELSE <<>>

\* _execute_research_node with no pending task
ExecuteResearchNoTask ==
    /\ pc = "execute_research"
    /\ get_next_task(heap, Get(state, "tasks", <<>>)) = NoTask
    /\ Step("execute_research", [completed |-> TRUE], heap)
    /\ UNCHANGED <<config, heap, working, wm_size, short_term, st_size,
                   rag_calls, produced, before, runs, harness>>

\* _execute_research_node executing the next task
ExecuteResearchTask ==
    /\ pc = "execute_research"
    /\ \E tasks \in {Get(state, "tasks", <<>>)} :
       \E next_task \in {get_next_task(heap, tasks)} :
           /\ next_task # NoTask
           /\ "id" \in DOMAIN heap[next_task]
           /\ \E env \in ToolEnvs :
              \E result \in {execute_task(heap[next_task], env)} :
              \E h \in {mark_completed(heap, tasks, heap[next_task].id)} :
                LET updated_tasks == tasks
                IN  /\ heap' = h
                    /\ working' =
                          IF config.memory_enabled
                          THEN WorkingMemory_add(working, wm_size,
                                                 "research_result", result)
                          ELSE working
                    /\ Step("execute_research",
                            [tasks |-> updated_tasks,
                             search_results |-> <<result>>,
                             documents |-> ResultDocuments(result),
                             iteration |-> Get(state, "iteration", 0) + 1], h)
    /\ UNCHANGED <<config, wm_size, short_term, st_size, rag_calls, produced,
                   before, runs, harness>>

\* _execute_research_node: next_task["id"] of a task dict without an id
ExecuteResearchRaises ==
    /\ pc = "execute_research"
    /\ \E next_task \in {get_next_task(heap, Get(state, "tasks", <<>>))} :
           /\ next_task # NoTask
           /\ "id" \notin DOMAIN heap[next_task]
    /\ Raise("execute_research", "'id'")
    /\ UNCHANGED <<config, heap, working, wm_size, short_term, st_size,
                   rag_calls, before, runs, harness>>

\* _update_rag_node
UpdateRagNode ==
    /\ pc = "update_rag"
    /\ IF ~config.enable_rag
       THEN /\ Step("update_rag", [rag_context |-> ""], heap)
            /\ UNCHANGED rag_calls
       ELSE LET documents == Get(state, "documents", <<>>)
                called == IF documents # <<>>
                          THEN Bump(rag_calls, "add_documents")
                          ELSE rag_calls
            IN  /\ rag_calls' = Bump(called, "retrieve_context")
                /\ \E rag_context \in harness.contexts :
                      Step("update_rag", [rag_context |-> rag_context], heap)
    /\ UNCHANGED <<config, heap, working, wm_size, short_term, st_size,
                   produced, before, runs, harness>>

\* _update_rag_node, add_documents or retrieve_context raising
UpdateRagNodeRaises ==
    /\ pc = "update_rag"
    /\ config.enable_rag
    /\ \E failing \in RagMethods :
          LET documents == Get(state, "documents", <<>>)
              called == IF documents # <<>>
                        THEN Bump(rag_calls, "add_documents")
                        ELSE rag_calls
          IN  /\ failing = "add_documents" => documents # <<>>
              /\ rag_calls' = IF failing = "add_documents" THEN called
                              ELSE Bump(called, "retrieve_context")
    /\ Raise("update_rag", "index unavailable")
    /\ UNCHANGED <<config, heap, working, wm_size, short_term, st_size,
                   before, runs, harness>>

\* the session saved before the report agent is called
SessionsAfterReport_SaveFirst(raised, report) ==
    IF config.memory_enabled
    THEN ShortTermMemory_save_session(
             short_term, st_size, state.query, state.plan,
             Get(state, "search_results", <<>>), IF raised THEN "" ELSE report)
    ELSE short_term

\* the session saved whether or not memory is enabled
SessionsAfterReport_Unconditional(raised, report) ==
    IF raised THEN short_term
    ELSE ShortTermMemory_save_session(
             short_term, st_size, state.query, state.plan,
             Get(state, "search_results", <<>>), report)

\* the session saved with the report of the state, not the new one
SessionsAfterReport_OldReport(raised, report) ==
    IF raised THEN short_term
    ELSE IF config.memory_enabled
    THEN ShortTermMemory_save_session(
             short_term, st_size, state.query, state.plan,
             Get(state, "search_results", <<>>), state.report)
    ELSE short_term

\* _generate_report_node: short-term memory after the node, whose call of the
\* report agent raised or returned `report`; the session is saved after the
\* call, with memory enabled
SessionsAfterReport(raised, report) ==
    IF raised THEN short_term
    ELSE IF config.memory_enabled
    THEN ShortTermMemory_save_session(
             short_term, st_size, state.query, state.plan,
             Get(state, "search_results", <<>>), report)
    ELSE short_term

\* _generate_report_node
GenerateReportNode ==
    /\ pc = "generate_report"
    /\ \E report \in harness.reports :
          /\ produced' = [produced EXCEPT
                            !.report = report,
                            !.report_plan = state.plan,
                            !.report_results = Get(state, "search_results", <<>>),
                            !.saved = config.memory_enabled]
          /\ short_term' = SessionsAfterReport(FALSE, report)
          /\ Step("generate_report", [report |-> report, completed |-> TRUE], heap)
    /\ UNCHANGED <<config, heap, working, wm_size, st_size, rag_calls, before,
                   runs, harness>>

\* _generate_report_node, generate_report raising
GenerateReportNodeRaises ==
    /\ pc = "generate_report"
    /\ short_term' = SessionsAfterReport(TRUE, "")
    /\ Raise("generate_report", "report failed")
    /\ UNCHANGED <<config, heap, working, wm_size, st_size, rag_calls, before,
                   runs, harness>>

----
(* The workflow *)

Configs == [enable_rag : BOOLEAN, memory_enabled : BOOLEAN,
            max_iterations : 0..MaxIter]

\* the state before any run, but for the memory sizes and the scenario
Constructed ==
    /\ config \in Configs
    /\ pc = "idle"
    /\ state = EmptyDict
    /\ heap = <<>>
    /\ working = <<>>
    /\ short_term = <<>>
    /\ final = EmptyDict
    /\ visits = NoVisits
    /\ rag_calls = NoCalls
    /\ produced = NothingProduced
    /\ before = <<>>
    /\ runs = 0

\* AgenticResearchSystem.__init__: MemoryManager() with the configured sizes;
\* one run, over every task list of up to MaxTasks tasks
Init ==
    /\ Constructed
    /\ wm_size = DefaultWorkingSize
    /\ st_size = DefaultShortTermSize
    /\ harness = [op |-> "workflow", queries |-> <<Queries>>, plans |-> Plans,
                  task_lists |-> TaskLists(MaxTasks), contexts |-> RagContexts,
                  reports |-> Reports]

NodeStep ==
    \/ PlanNode
    \/ PlanNodeRaises
    \/ CreateTasksNode
    \/ CreateTasksNodeRaises
    \/ ExecuteResearchNoTask
    \/ ExecuteResearchTask
    \/ ExecuteResearchRaises
    \/ UpdateRagNode
    \/ UpdateRagNodeRaises
    \/ GenerateReportNode
    \/ GenerateReportNodeRaises

Next == StartRun \/ NodeStep

Spec == Init /\ [][Next]_vars

\* one run over every task list of up to MaxTasks tasks and every tool
\* outcome, the model stubbed to answer with a fixed plan and a fixed report
InitLoop ==
    /\ Constructed
    /\ wm_size = DefaultWorkingSize
    /\ st_size = DefaultShortTermSize
    /\ harness = [op |-> "workflow", queries |-> <<{"Q"}>>,
                  plans |-> {[objective |-> "O", search_queries |-> <<"q1", "q2">>]},
                  task_lists |-> TaskLists(MaxTasks), contexts |-> {"context"},
                  reports |-> {"report O"}]

\* task dicts of a known type, of the schema's synthesize, of a type outside
\* the schema, and one without an id
TypedTaskPool ==
    {[id |-> "t1", description |-> "q1", type |-> "search", priority |-> 5,
      status |-> "pending", dependencies |-> {}],
     [id |-> "t5", description |-> "write", type |-> "synthesize",
      priority |-> 4, status |-> "pending", dependencies |-> {}],
     [id |-> "t6", description |-> "plot", type |-> "chart", priority |-> 5,
      status |-> "pending", dependencies |-> {}],
     [description |-> "q2", type |-> "synthesize", priority |-> 2,
      status |-> "pending", dependencies |-> {}]}

\* one run over every list of up to MaxTasks such tasks, the model stubbed
\* to answer with a fixed plan and a fixed report
InitTypes ==
    /\ Constructed
    /\ wm_size = DefaultWorkingSize
    /\ st_size = DefaultShortTermSize
    /\ harness = [op |-> "workflow", queries |-> <<{"Q"}>>,
                  plans |-> {[objective |-> "O", search_queries |-> <<"q1", "q2">>]},
                  task_lists |-> SeqUpTo(TypedTaskPool, MaxTasks),
                  contexts |-> {"context"}, reports |-> {"report O"}]

SpecTypes == InitTypes /\ [][Next]_vars

\* every external call eventually returns or raises
FairSpec == InitLoop /\ [][Next]_vars /\ WF_vars(NodeStep)

\* up to MaxRuns runs one after another on one system instance, the model
\* stubbed to answer with a fixed plan, a task list of at most one task and a
\* fixed report; the short-term memory holds one session or the configured
\* number
InitSessions ==
    /\ Constructed
    /\ wm_size = DefaultWorkingSize
    /\ st_size \in {1, DefaultShortTermSize}
    /\ harness = [op |-> "workflow",
                  queries |-> [k \in 1..MaxRuns |-> {SessionQueries[k]}],
                  plans |-> {[objective |-> "O", search_queries |-> <<"q1", "q2">>]},
                  task_lists |-> TaskLists(1), contexts |-> {"context"},
                  reports |-> {"report O"}]

SpecSessions == InitSessions /\ [][Next]_vars

----
(* The continuation decision on its own: every iteration count, cap, task
   list and configuration *)

InitDecision ==
    /\ Constructed
    /\ wm_size = DefaultWorkingSize
    /\ st_size = DefaultShortTermSize
    /\ harness = [op |-> "decide", result |-> None]

\* build a state of the research loop
DecisionInput ==
    /\ harness.op = "decide"
    /\ pc = "idle"
    /\ \E iteration \in 0..(MaxIter + 1), tasks \in TaskLists(MaxTasks) :
          /\ heap' = tasks
          /\ state' = [InitialState("Q", config) EXCEPT
                         !.iteration = iteration,
                         !.tasks = [i \in 1..Len(tasks) |-> i]]
    /\ pc' = "execute_research"
    /\ UNCHANGED <<config, working, wm_size, short_term, st_size, final, visits,
                   rag_calls, produced, before, runs, harness>>

\* _should_continue_research on that state
Decide ==
    /\ harness.op = "decide"
    /\ pc = "execute_research"
    /\ harness.result = None
    /\ harness' = [harness EXCEPT
                     !.result = should_continue_research(state, config, heap)]
    /\ UNCHANGED <<config, pc, state, heap, working, wm_size, short_term,
                   st_size, final, visits, rag_calls, produced, before, runs>>

NextDecision == DecisionInput \/ Decide

SpecDecision == InitDecision /\ [][NextDecision]_vars

----
(* The two memories on their own, constructed with any capacity *)

Contents == {"first", "second"}

\* a clear that leaves the newest entry
deque_clear_KeepsNewest(d) == LastN(d, Min(1, Len(d)))

\* deque.clear
deque_clear(d) == <<>>

InitMemory ==
    /\ Constructed
    /\ wm_size \in 0..MaxCap
    /\ st_size \in 0..MaxCap
    /\ harness = [op |-> "memory", wm_log |-> <<>>, st_log |-> <<>>,
                  last |-> "none", cleared |-> FALSE]

\* WorkingMemory.add
MemoryAdd ==
    /\ harness.op = "memory"
    /\ Len(harness.wm_log) < wm_size + MaxExtra
    /\ \E content \in Contents :
          /\ working' = WorkingMemory_add(working, wm_size, "note", content)
          /\ harness' = [harness EXCEPT
                           !.wm_log = Append(@, MemoryItem("note", content)),
                           !.last = "add"]
    /\ UNCHANGED <<config, pc, state, heap, wm_size, short_term, st_size, final,
                   visits, rag_calls, produced, before, runs>>

\* ShortTermMemory.save_session
MemorySave ==
    /\ harness.op = "memory"
    /\ Len(harness.st_log) < st_size + MaxExtra
    /\ \E query \in Queries :
          /\ short_term' = ShortTermMemory_save_session(
                               short_term, st_size, query, EmptyDict, <<>>, "")
          /\ harness' = [harness EXCEPT
                           !.st_log = Append(@, SessionRecord(query, EmptyDict,
                                                              <<>>, "")),
                           !.last = "save"]
    /\ UNCHANGED <<config, pc, state, heap, working, wm_size, st_size, final,
                   visits, rag_calls, produced, before, runs>>

\* MemoryManager.clear_working_memory
MemoryClearWorking ==
    /\ harness.op = "memory"
    /\ working' = deque_clear(working)
    /\ harness' = [harness EXCEPT !.wm_log = <<>>,
                                   !.last = "clear_working_memory",
                                   !.cleared = TRUE]
    /\ UNCHANGED <<config, pc, state, heap, wm_size, short_term, st_size, final,
                   visits, rag_calls, produced, before, runs>>

\* MemoryManager.reset
MemoryReset ==
    /\ harness.op = "memory"
    /\ working' = deque_clear(working)
    /\ short_term' = deque_clear(short_term)
    /\ harness' = [harness EXCEPT !.wm_log = <<>>, !.st_log = <<>>,
                                   !.last = "reset", !.cleared = TRUE]
    /\ UNCHANGED <<config, pc, state, heap, wm_size, st_size, final, visits,
                   rag_calls, produced, before, runs>>

NextMemory == MemoryAdd \/ MemorySave \/ MemoryClearWorking \/ MemoryReset

SpecMemory == InitMemory /\ [][NextMemory]_vars

----
(* The task manager on its own: every list of up to MaxTasks task dicts, with
   or without an id, a status and a priority *)

TaskIds == {"a", "b"}

\* ids mark_completed is called with beside the id of the task just selected
MarkIds == {"a", "zz"}

TaskDicts ==
    {[k \in ks \cup {"description"} |-> t[k]] :
        ks \in SUBSET {"id", "status", "priority"},
        t \in [id : TaskIds, status : {"pending", "completed"},
               priority : {1, 2}, description : {"d"}]}

NoCall == [op |-> "none"]

InitTasks ==
    /\ Constructed
    /\ config = [enable_rag |-> TRUE, memory_enabled |-> TRUE,
                 max_iterations |-> 0]
    /\ wm_size = DefaultWorkingSize
    /\ st_size = DefaultShortTermSize
    /\ \E tasks \in SeqUpTo(TaskDicts, MaxTasks) :
          harness = [op |-> "tasks", heap |-> tasks,
                     tasks |-> [i \in 1..Len(tasks) |-> i],
                     last |-> NoCall, prev |-> NoCall, updated |-> NoCall]

\* next_task = get_next_task(tasks)
TasksGetNext ==
    /\ harness.op = "tasks"
    /\ harness' = [harness EXCEPT
                     !.tasks = TasksAfterGetNext(harness.heap, harness.tasks),
                     !.last = [op |-> "get", heap |-> harness.heap,
                               tasks |-> harness.tasks,
                               result |-> get_next_task(harness.heap,
                                                        harness.tasks)],
                     !.prev = harness.last,
                     !.updated = NoCall]
    /\ UNCHANGED <<config, pc, state, heap, working, wm_size, short_term,
                   st_size, final, visits, rag_calls, produced, before, runs>>

\* mark_completed(tasks, task_id), task_id naming any task or none
TasksMarkId ==
    /\ harness.op = "tasks"
    /\ \E task_id \in MarkIds :
          harness' = [harness EXCEPT
                        !.heap = mark_completed(harness.heap, harness.tasks,
                                                task_id),
                        !.last = [op |-> "mark", heap |-> harness.heap,
                                  tasks |-> harness.tasks,
                                  task_id |-> task_id, of |-> NoTask],
                        !.prev = harness.last,
                     !.updated = NoCall]
    /\ UNCHANGED <<config, pc, state, heap, working, wm_size, short_term,
                   st_size, final, visits, rag_calls, produced, before, runs>>

\* mark_completed(tasks, next_task["id"]) for the task just selected
TasksMarkSelected ==
    /\ harness.op = "tasks"
    /\ harness.last.op = "get"
    /\ harness.last.result # NoTask
    /\ "id" \in DOMAIN harness.heap[harness.last.result]
    /\ harness' = [harness EXCEPT
                     !.heap = mark_completed(harness.heap, harness.tasks,
                                  harness.heap[harness.last.result].id),
                     !.last = [op |-> "mark", heap |-> harness.heap,
                               tasks |-> harness.tasks,
                               task_id |-> harness.heap[harness.last.result].id,
                               of |-> harness.last.result],
                     !.prev = harness.last,
                     !.updated = NoCall]
    /\ UNCHANGED <<config, pc, state, heap, working, wm_size, short_term,
                   st_size, final, visits, rag_calls, produced, before, runs>>

\* update_tasks(tasks, completed_task, results)
TasksUpdate ==
    /\ harness.op = "tasks"
    /\ \E response \in UpdateResponses :
          harness' = [harness EXCEPT
                        !.last = NoCall, !.prev = NoCall,
                        !.updated = [op |-> "update", heap |-> harness.heap,
                                     tasks |-> harness.tasks,
                                     response |-> response,
                                     result |-> update_tasks(harness.heap,
                                                   harness.tasks, response)]]
    /\ UNCHANGED <<config, pc, state, heap, working, wm_size, short_term,
                   st_size, final, visits, rag_calls, produced, before, runs>>

NextTasks == TasksGetNext \/ TasksMarkId \/ TasksMarkSelected \/ TasksUpdate

SpecTasks == InitTasks /\ [][NextTasks]_vars

----
(* Finding similar sessions: a short-term memory of MaxSessions sessions, any
   sequence of saved queries, any search *)

\* the queries saved: a query is the sequence of its words
SavedQueries ==
    {<<"what", "is", "machine", "learning?">>,
     <<"quantum", "computing", "news">>,
     <<"deep", "learning", "tutorial">>,
     <<"Deep", "Learning", "tutorial">>,
     <<>>}

\* the queries searched for
SearchQueries ==
    {<<"machine", "learning", "basics">>, <<"Learning">>, <<>>}

InitSimilar ==
    /\ Constructed
    /\ config = [enable_rag |-> TRUE, memory_enabled |-> TRUE,
                 max_iterations |-> 0]
    /\ wm_size = DefaultWorkingSize
    /\ st_size = MaxSessions
    /\ harness = [op |-> "similar", found |-> NoCall]

\* MemoryManager.save_session
SimilarSave ==
    /\ harness.op = "similar"
    /\ \E query \in SavedQueries :
          short_term' = ShortTermMemory_save_session(
                            short_term, st_size, query, EmptyDict, <<>>, "")
    /\ harness' = [harness EXCEPT !.found = NoCall]
    /\ UNCHANGED <<config, pc, state, heap, working, wm_size, st_size, final,
                   visits, rag_calls, produced, before, runs>>

\* MemoryManager.find_relevant_history(query, top_k)
SimilarFind ==
    /\ harness.op = "similar"
    /\ \E query \in SearchQueries, top_k \in (-1)..(MaxSessions + 1) :
          harness' = [harness EXCEPT
                        !.found = [op |-> "find", query |-> query,
                                   top_k |-> top_k,
                                   sessions |-> find_relevant_history(
                                                   short_term, query, top_k)]]
    /\ UNCHANGED <<config, pc, state, heap, working, wm_size, short_term,
                   st_size, final, visits, rag_calls, produced, before, runs>>

NextSimilar == SimilarSave \/ SimilarFind

SpecSimilar == InitSimilar /\ [][NextSimilar]_vars

----
(* Reading the memories: a working memory of up to MaxCap items, a short-term
   memory of one session more than get_context returns *)

InitContext ==
    /\ Constructed
    /\ config = [enable_rag |-> TRUE, memory_enabled |-> TRUE,
                 max_iterations |-> 0]
    /\ wm_size \in 1..MaxCap
    /\ st_size = RecentSessions + 1
    /\ harness = [op |-> "context", saved |-> 0, snapshot |-> NoCall,
                  recent |-> NoCall]

\* MemoryManager.add_to_working
ContextAdd ==
    /\ harness.op = "context"
    /\ \E content \in Contents :
          working' = WorkingMemory_add(working, wm_size, "note", content)
    /\ harness' = [harness EXCEPT
                     !.recent = NoCall,
                     !.snapshot =
                        IF @.op = "none" THEN @
                        ELSE [@ EXCEPT !.context =
                                 SnapshotAfterInsert(@, working', short_term)]]
    /\ UNCHANGED <<config, pc, state, heap, wm_size, short_term, st_size, final,
                   visits, rag_calls, produced, before, runs>>

\* MemoryManager.save_session, the queries of successive sessions differing
ContextSave ==
    /\ harness.op = "context"
    /\ short_term' = ShortTermMemory_save_session(
                         short_term, st_size,
                         SessionQueries[(harness.saved % Len(SessionQueries)) + 1],
                         EmptyDict, <<>>, "")
    /\ harness' = [harness EXCEPT
                     !.saved = (@ + 1) % Len(SessionQueries),
                     !.snapshot =
                        IF @.op = "none" THEN @
                        ELSE [@ EXCEPT !.context =
                                 SnapshotAfterInsert(@, working, short_term')]]
    /\ UNCHANGED <<config, pc, state, heap, working, wm_size, st_size, final,
                   visits, rag_calls, produced, before, runs>>

\* MemoryManager.get_context
ContextGet ==
    /\ harness.op = "context"
    /\ harness' = [harness EXCEPT
                     !.snapshot = [op |-> "get_context",
                                   context |-> get_context(working, short_term),
                                   working |-> working,
                                   short_term |-> short_term]]
    /\ UNCHANGED <<config, pc, state, heap, working, wm_size, short_term,
                   st_size, final, visits, rag_calls, produced, before, runs>>

\* WorkingMemory.get_recent(n)
ContextGetRecent ==
    /\ harness.op = "context"
    /\ \E n \in 0..(MaxCap + 1) :
          harness' = [harness EXCEPT
                        !.recent = [op |-> "get_recent", n |-> n,
                                    items |-> get_recent(working, n)]]
    /\ UNCHANGED <<config, pc, state, heap, working, wm_size, short_term,
                   st_size, final, visits, rag_calls, produced, before, runs>>

\* WorkingMemory.get_recent()
ContextGetRecentAll ==
    /\ harness.op = "context"
    /\ harness' = [harness EXCEPT
                     !.recent = [op |-> "get_recent_all",
                                 items |-> get_recent_all(working)]]
    /\ UNCHANGED <<config, pc, state, heap, working, wm_size, short_term,
                   st_size, final, visits, rag_calls, produced, before, runs>>

NextContext ==
    \/ ContextAdd
    \/ ContextSave
    \/ ContextGet
    \/ ContextGetRecent
    \/ ContextGetRecentAll

SpecContext == InitContext /\ [][NextContext]_vars

----
(* Two research() coroutines of one AgenticResearchSystem on one event loop:
   each has its own ResearchWorkflow and graph state, both share the
   MemoryManager. A coroutine runs alone between two awaits, so every action
   below is the code of one node from one await to the next. pc, state, final
   and produced are functions of the session here; produced holds the
   coroutine's locals. *)

Sessions == {1, 2}

\* what the model and the tools answer to each session
SessionPlans == <<[objective |-> "O", search_queries |-> <<"q1", "q2">>],
                  [objective |-> "O2", search_queries |-> <<>>]>>
SessionTasks ==
    <<[id |-> "t1", description |-> "q1", type |-> "search", priority |-> 5,
       status |-> "pending", dependencies |-> {}],
      [id |-> "t2", description |-> "fetch", type |-> "fetch", priority |-> 3,
       status |-> "pending", dependencies |-> {}, urls |-> <<"u1">>]>>
SessionReports == <<"report O", "report O2">>

NoLocals == [memory_context |-> None, at_call |-> <<>>]

\* the sessions the record is appended to, were they those read when
\* generate_report was called
SessionsAtSave_FromCall(at_call, at_return) == at_call

\* ShortTermMemory.save_session appends to self._sessions as it is when the
\* report has arrived
SessionsAtSave(at_call, at_return) == at_return

InitConcurrent ==
    /\ config \in Configs
    /\ pc = [r \in Sessions |-> "idle"]
    /\ state = [r \in Sessions |-> EmptyDict]
    /\ final = [r \in Sessions |-> EmptyDict]
    /\ produced = [r \in Sessions |-> NoLocals]
    /\ heap = <<>>
    /\ working = <<>>
    /\ short_term = <<>>
    /\ visits = NoVisits
    /\ rag_calls = NoCalls
    /\ before = <<>>
    /\ runs = 0
    /\ wm_size = DefaultWorkingSize
    /\ st_size \in {1, DefaultShortTermSize}
    /\ harness = [op |-> "concurrent", queries |-> SessionQueries,
                  plans |-> SessionPlans, tasks |-> SessionTasks,
                  contexts |-> {"context"}, reports |-> SessionReports]

\* the graph of session r took the step of `node`, which returned `update`
SessionStep(r, node, update, h) ==
    \E s \in {ApplyUpdate(state[r], update)} :
    \E next \in {Edge(node, s, config, h)} :
        /\ state' = [state EXCEPT ![r] = s]
        /\ IF next = "END"
           THEN /\ pc' = [pc EXCEPT ![r] = "returned"]
                /\ final' = [final EXCEPT ![r] = s]
           ELSE /\ pc' = [pc EXCEPT ![r] = next]
                /\ final' = final

\* research -> run, up to the first await inside ainvoke
ConcurrentStart ==
    /\ harness.op = "concurrent"
    /\ \E r \in Sessions :
          /\ pc[r] = "idle"
          /\ state' = [state EXCEPT ![r] =
                          ApplyUpdate(InitialState(harness.queries[r], config),
                                      InitialState(harness.queries[r], config))]
          /\ pc' = [pc EXCEPT ![r] = "plan"]
    /\ UNCHANGED <<config, heap, working, wm_size, short_term, st_size, final,
                   visits, rag_calls, produced, before, runs, harness>>

\* _plan_node up to `await create_plan`: the memory context is read
ConcurrentPlanCall ==
    /\ harness.op = "concurrent"
    /\ \E r \in Sessions :
          /\ pc[r] = "plan"
          /\ produced' = [produced EXCEPT ![r].memory_context =
                             IF config.memory_enabled
                             THEN get_context(working, short_term)
                             ELSE EmptyDict]
          /\ pc' = [pc EXCEPT ![r] = "plan_await"]
    /\ UNCHANGED <<config, state, heap, working, wm_size, short_term, st_size,
                   final, visits, rag_calls, before, runs, harness>>

\* _plan_node from the arrival of the plan
ConcurrentPlanReturn ==
    /\ harness.op = "concurrent"
    /\ \E r \in Sessions :
          /\ pc[r] = "plan_await"
          /\ working' = IF config.memory_enabled
                        THEN WorkingMemory_add(working, wm_size, "plan",
                                               harness.plans[r])
                        ELSE working
          /\ SessionStep(r, "plan",
                         [plan |-> harness.plans[r],
                          memory_context |-> produced[r].memory_context,
                          iteration |-> 0,
                          max_iterations |-> config.max_iterations,
                          completed |-> FALSE], heap)
    /\ UNCHANGED <<config, heap, wm_size, short_term, st_size, visits,
                   rag_calls, produced, before, runs, harness>>

\* _create_tasks_node from the arrival of the task list
ConcurrentCreateTasks ==
    /\ harness.op = "concurrent"
    /\ \E r \in Sessions :
       \E tasks \in {<<>>, <<harness.tasks[r]>>} :
          LET refs == [i \in 1..Len(tasks) |-> Len(heap) + i]
              h == heap \o tasks
          IN  /\ pc[r] = "create_tasks"
              /\ heap' = h
              /\ working' = IF config.memory_enabled
                            THEN WorkingMemory_add(working, wm_size, "tasks", refs)
                            ELSE working
              /\ SessionStep(r, "create_tasks", [tasks |-> refs], h)
    /\ UNCHANGED <<config, wm_size, short_term, st_size, visits, rag_calls,
                   produced, before, runs, harness>>

\* _execute_research_node; the task list and its dicts are the session's own,
\* so the part before `await execute_task` commutes with the other session
ConcurrentExecuteResearch ==
    /\ harness.op = "concurrent"
    /\ \E r \in Sessions :
       \E tasks \in {Get(state[r], "tasks", <<>>)} :
       \E next_task \in {get_next_task(heap, tasks)} :
          /\ pc[r] = "execute_research"
          /\ IF next_task = NoTask
             THEN /\ SessionStep(r, "execute_research", [completed |-> TRUE], heap)
                  /\ UNCHANGED <<heap, working>>
             ELSE \E env \in ToolEnvs :
                  \E result \in {execute_task(heap[next_task], env)} :
                  \E h \in {mark_completed(heap, tasks, heap[next_task].id)} :
                      /\ heap' = h
                      /\ working' =
                            IF config.memory_enabled
                            THEN WorkingMemory_add(working, wm_size,
                                                   "research_result", result)
                            ELSE working
                      /\ SessionStep(r, "execute_research",
                              [tasks |-> tasks,
                               search_results |-> <<result>>,
                               documents |-> ResultDocuments(result),
                               iteration |-> Get(state[r], "iteration", 0) + 1], h)
    /\ UNCHANGED <<config, wm_size, short_term, st_size, visits, rag_calls,
                   produced, before, runs, harness>>

\* _update_rag_node; the RAGAgent belongs to the session's workflow
ConcurrentUpdateRag ==
    /\ harness.op = "concurrent"
    /\ \E r \in Sessions :
       \E rag_context \in (IF config.enable_rag THEN harness.contexts ELSE {""}) :
          /\ pc[r] = "update_rag"
          /\ SessionStep(r, "update_rag", [rag_context |-> rag_context], heap)
    /\ UNCHANGED <<config, heap, working, wm_size, short_term, st_size, visits,
                   rag_calls, produced, before, runs, harness>>

\* _generate_report_node up to `await generate_report`
ConcurrentReportCall ==
    /\ harness.op = "concurrent"
    /\ \E r \in Sessions :
          /\ pc[r] = "generate_report"
          /\ produced' = [produced EXCEPT ![r].at_call = short_term]
          /\ pc' = [pc EXCEPT ![r] = "report_await"]
    /\ UNCHANGED <<config, state, heap, working, wm_size, short_term, st_size,
                   final, visits, rag_calls, before, runs, harness>>

\* _generate_report_node from the arrival of the report
ConcurrentReportReturn ==
    /\ harness.op = "concurrent"
    /\ \E r \in Sessions :
          /\ pc[r] = "report_await"
          /\ short_term' =
                IF config.memory_enabled
                THEN ShortTermMemory_save_session(
                         SessionsAtSave(produced[r].at_call, short_term),
                         st_size, state[r].query, state[r].plan,
                         Get(state[r], "search_results", <<>>),
                         harness.reports[r])
                ELSE short_term
          /\ SessionStep(r, "generate_report",
                         [report |-> harness.reports[r], completed |-> TRUE],
                         heap)
    /\ UNCHANGED <<config, heap, working, wm_size, st_size, visits, rag_calls,
                   produced, before, runs, harness>>

\* an awaited call of session r raises: ainvoke raises, run() catches
ConcurrentRaises ==
    /\ harness.op = "concurrent"
    /\ \E r \in Sessions :
          /\ \/ pc[r] \in {"plan_await", "create_tasks", "report_await"}
             \/ pc[r] = "execute_research"
                  /\ get_next_task(heap, Get(state[r], "tasks", <<>>)) # NoTask
             \/ pc[r] = "update_rag" /\ config.enable_rag
          /\ pc' = [pc EXCEPT ![r] = "returned"]
          /\ final' = [final EXCEPT ![r] =
                          RunExcept(InitialState(state[r].query, config),
                                    "call failed").value]
    /\ UNCHANGED <<config, state, heap, working, wm_size, short_term, st_size,
                   visits, rag_calls, produced, before, runs, harness>>

NextConcurrent ==
    \/ ConcurrentStart
    \/ ConcurrentPlanCall
    \/ ConcurrentPlanReturn
    \/ ConcurrentCreateTasks
    \/ ConcurrentExecuteResearch
    \/ ConcurrentUpdateRag
    \/ ConcurrentReportCall
    \/ ConcurrentReportReturn
    \/ ConcurrentRaises

SpecConcurrent == InitConcurrent /\ [][NextConcurrent]_vars

----
(* ResearchAgent.execute_task on fetch tasks, over pages of several lengths *)

Urls == {"u1", "u2"}

\* lengths of the pages served: empty, short, and around max_length
PageLengths == {0, 1, MaxContentLength} \cup
               {MaxContentLength + k : k \in 1..MaxExtra}

InitFetch ==
    /\ Constructed
    /\ config = [enable_rag |-> TRUE, memory_enabled |-> TRUE,
                 max_iterations |-> 0]
    /\ wm_size = DefaultWorkingSize
    /\ st_size = DefaultShortTermSize
    /\ \E lengths \in [Urls -> PageLengths] :
       \E urls \in SeqUpTo(Urls, MaxTasks) :
          harness = [op |-> "fetch",
                     env |-> [search |-> "ok", fetch |-> "ok",
                              pages |-> [u \in Urls |-> Text(lengths[u])]],
                     task |-> [id |-> "t2", description |-> "fetch",
                               type |-> "fetch", priority |-> 3,
                               status |-> "pending", dependencies |-> {},
                               urls |-> urls],
                     result |-> NoCall]

\* result = await research_agent.execute_task(task)
FetchExecuteTask ==
    /\ harness.op = "fetch"
    /\ harness.result = NoCall
    /\ harness' = [harness EXCEPT !.result = execute_task(harness.task, harness.env)]
    /\ UNCHANGED <<config, pc, state, heap, working, wm_size, short_term,
                   st_size, final, visits, rag_calls, produced, before, runs>>

\* the provider goes down or comes back between two calls
FetchProviderToggles ==
    /\ harness.op = "fetch"
    /\ harness' = [harness EXCEPT
                     !.env.fetch = IF @ = "ok" THEN "error" ELSE "ok",
                     !.result = NoCall]
    /\ UNCHANGED <<config, pc, state, heap, working, wm_size, short_term,
                   st_size, final, visits, rag_calls, produced, before, runs>>

NextFetch == FetchExecuteTask \/ FetchProviderToggles

SpecFetch == InitFetch /\ [][NextFetch]_vars

----
(* MemoryManager(working_memory_size, short_term_memory_size); an argument
   `int | None` is <<>> for None and <<n>> for the integer n *)

\* Python `x or default` on an optional integer: None and 0 are falsy
OrDefault(x, default) == IF x = <<>> \/ x[1] = 0 THEN default ELSE x[1]

\* MemoryManager.__init__: the max_size given to each memory
MemoryManager_init(working_memory_size, short_term_memory_size) ==
    [working |-> OrDefault(working_memory_size, DefaultWorkingSize),
     short_term |-> OrDefault(short_term_memory_size, DefaultShortTermSize)]

SizeArguments == {<<>>} \cup {<<n>> : n \in 0..MaxCap}

InitConstruct ==
    /\ Constructed
    /\ config = [enable_rag |-> TRUE, memory_enabled |-> TRUE,
                 max_iterations |-> 0]
    /\ \E w \in SizeArguments, s \in SizeArguments :
          /\ wm_size = MemoryManager_init(w, s).working
          /\ st_size = MemoryManager_init(w, s).short_term
          /\ harness = [op |-> "construct", working_memory_size |-> w,
                        short_term_memory_size |-> s, added |-> 0, saved |-> 0]

\* MemoryManager.add_to_working, up to MaxExtra items beyond the capacity
ConstructAdd ==
    /\ harness.op = "construct"
    /\ harness.added < wm_size + MaxExtra
    /\ working' = WorkingMemory_add(working, wm_size, "note", harness.added)
    /\ harness' = [harness EXCEPT !.added = @ + 1]
    /\ UNCHANGED <<config, pc, state, heap, wm_size, short_term, st_size, final,
                   visits, rag_calls, produced, before, runs>>

\* MemoryManager.save_session, up to MaxExtra sessions beyond the capacity
ConstructSave ==
    /\ harness.op = "construct"
    /\ harness.saved < st_size + MaxExtra
    /\ short_term' = ShortTermMemory_save_session(
                         short_term, st_size,
                         SessionQueries[(harness.saved % Len(SessionQueries)) + 1],
                         EmptyDict, <<>>, "")
    /\ harness' = [harness EXCEPT !.saved = @ + 1]
    /\ UNCHANGED <<config, pc, state, heap, working, wm_size, st_size, final,
                   visits, rag_calls, produced, before, runs>>

NextConstruct == ConstructAdd \/ ConstructSave

SpecConstruct == InitConstruct /\ [][NextConstruct]_vars

----
(* Properties *)

Returned == pc = "returned"
Succeeded == pc = "returned" /\ final.error = None
Failed == pc = "returned" /\ final.error # None

\* the last k elements of s
Suffix(s, k) == SubSeq(s, Len(s) - k + 1, Len(s))

\* C1: the continuation decision returns one of continue, rag, report for
\* every iteration count, cap, task list and configuration; never continue
\* once iteration >= max_iterations; rag only with enable_rag.
C1_DecisionTotalAndSafe ==
    (harness.op = "decide" /\ pc = "execute_research") =>
        /\ ENABLED Decide \/ harness.result \in {"continue", "rag", "report"}
        /\ (state.iteration >= state.max_iterations
                => harness.result # "continue")
        /\ (harness.result = "rag" => config.enable_rag)

C1_Witness ==
    /\ harness.op = "decide"
    /\ pc = "execute_research"
    /\ harness.result = "report"
    /\ state.iteration >= state.max_iterations
    /\ \E r \in Range(state.tasks) : IsPending(heap[r])

\* C2: every run terminates: once started, a run eventually returns a final
\* state with completed = true, whatever the task list and the cap.
C2_RunTerminates ==
    (pc \in Nodes) ~> (pc = "returned" /\ final.completed = TRUE)

C2_Witness ==
    /\ Succeeded
    /\ final.iteration >= 1
    /\ final.iteration = final.max_iterations
    /\ \E r \in Range(final.tasks) : IsPending(heap[r])

\* C3: a run in which a stage raised leaves short-term memory as it was when
\* the run started.
C3_FailedRunSavesNothing ==
    Failed => short_term = before

C3_Witness ==
    /\ Failed
    /\ visits["generate_report"] = 1
    /\ config.memory_enabled
    /\ before # <<>>

\* C4: a stage that raises makes run() return (not raise) the initial state
\* with error set to the failure text and completed = true, no stage runs
\* after it, and every returned state with an error is completed.
C4_FailureIsReturned ==
    /\ [](/\ pc # "raised"
          /\ (produced.raised # None =>
                /\ pc = "returned"
                /\ final.error = produced.raised
                /\ final.completed = TRUE)
          /\ (Failed => final.completed = TRUE))
    /\ [][produced.raised # None => (visits' = visits \/ pc' = "plan")]_vars

C4_Witness ==
    /\ Failed
    /\ produced.raised = "'id'"
    /\ visits["execute_research"] = 2

\* C5: once the state has completed = true no stage runs any more.
C5_CompletedIsTerminal ==
    [][~(pc \in Nodes /\ state.completed = TRUE)]_vars

\* C6 as stated: every run in which no stage raises appends exactly one
\* session record, for every configuration.
C6_SuccessAlwaysSaves ==
    Succeeded =>
        short_term = DequeAppend(before, st_size,
                         SessionRecord(final.query, final.plan,
                                       final.search_results, final.report))

\* C6, amended: with memory_enabled, every run in which no stage raises appends
\* exactly one session record (the run's query, plan, results and the report
\* just generated), and nothing runs after the save; with memory disabled
\* short-term memory is left as it was.
C6_SuccessSavesWhenMemoryEnabled ==
    /\ Succeeded =>
          /\ final.report = produced.report
          /\ short_term =
                IF config.memory_enabled
                THEN DequeAppend(before, st_size,
                         SessionRecord(final.query, final.plan,
                                       final.search_results, final.report))
                ELSE before
    /\ produced.saved => Returned

C6_Witness ==
    /\ Succeeded
    /\ config.memory_enabled
    /\ Len(before) = st_size
    /\ Len(final.search_results) > 0

\* C7: with enable_rag false the retrieval component is never called and the
\* update_rag stage is never entered.
C7_NoRagWhenDisabled ==
    ~config.enable_rag =>
        /\ rag_calls = NoCalls
        /\ visits["update_rag"] = 0
        /\ pc # "update_rag"

C7_Witness ==
    /\ ~config.enable_rag
    /\ Succeeded
    /\ final.iteration > 0

\* C8: a run in which no stage raises returns completed = true, error = None,
\* the plan the plan stage produced and the report the report stage produced
\* from that plan.
C8_EndToEndSuccess ==
    Succeeded =>
        /\ final.completed = TRUE
        /\ final.plan = produced.plan
        /\ final.report = produced.report
        /\ produced.report_plan = produced.plan

C8_Witness ==
    /\ Succeeded
    /\ final.query = "Q"
    /\ final.plan.objective = "O"
    /\ final.report = "report O"
    /\ Len(final.search_results) = 2

\* C9: plan runs first and exactly once, create_tasks follows it, only the
\* research stage runs more than once, retrieval runs at most once, after the
\* last research step and before report, and nothing runs after report.
C9_StageOrder ==
    /\ [](/\ pc = "plan" => visits = NoVisits
          /\ (pc \in Nodes \ {"plan"} \/ Returned) => visits["plan"] = 1
          /\ \A n \in Nodes \ {"plan", "create_tasks"} :
                visits[n] > 0 => visits["create_tasks"] = 1
          /\ \A n \in Nodes \ {"execute_research"} : visits[n] <= 1
          /\ pc = "update_rag" => /\ visits["execute_research"] >= 1
                                  /\ visits["generate_report"] = 0
          /\ pc = "generate_report" => visits["execute_research"] >= 1
          /\ visits["generate_report"] = 1 => Returned)
    /\ [][/\ pc = "plan" => pc' \in {"create_tasks", "returned"}
          /\ pc = "create_tasks" => pc' \in {"execute_research", "returned"}
          /\ pc = "update_rag" => pc' \in {"generate_report", "returned"}
          /\ pc' = "update_rag" => pc = "execute_research"
          /\ (visits["update_rag"] = 1 /\ pc' # "plan") =>
                visits'["execute_research"] = visits["execute_research"]]_vars

C9_Witness ==
    /\ Succeeded
    /\ visits = [n \in Nodes |-> IF n = "execute_research" THEN 2 ELSE 1]

\* C10: a memory of capacity c holds exactly the last min(c, n) of the n
\* entries inserted since it was last cleared, in insertion order, and never
\* more than c.
C10_RingBuffer ==
    harness.op = "memory" =>
        /\ working = Suffix(harness.wm_log, Min(wm_size, Len(harness.wm_log)))
        /\ short_term = Suffix(harness.st_log, Min(st_size, Len(harness.st_log)))
        /\ Len(working) <= wm_size
        /\ Len(short_term) <= st_size

C10_Witness ==
    /\ harness.op = "memory"
    /\ wm_size > 0
    /\ st_size > 0
    /\ Len(harness.wm_log) = wm_size + MaxExtra
    /\ Len(harness.st_log) = st_size + MaxExtra
    /\ working[1] # harness.wm_log[1]

\* C11: get_next_task returns the pending task of highest priority, the first
\* in list order among equal priorities, and none exactly when no task is
\* pending; the list and every task in it are as before the call, and a second
\* call returns the same task
C11_GetNextDeterministicReadOnly ==
    (harness.op = "tasks" /\ harness.last.op = "get") =>
        LET h == harness.last.heap
            refs == harness.last.tasks
            r == harness.last.result
            P == {i \in DOMAIN refs : IsPending(h[refs[i]])}
            prio(i) == Get(h[refs[i]], "priority", 0)
        IN  /\ (r = NoTask) <=> (P = {})
            /\ r # NoTask =>
                  \E i \in P :
                     /\ refs[i] = r
                     /\ \A j \in P : \/ prio(j) < prio(i)
                                     \/ prio(j) = prio(i) /\ i <= j
            /\ harness.tasks = refs
            /\ harness.heap = h
            /\ harness.prev.op = "get" => harness.prev.result = r

\* a second call in a row selecting the first of two pending tasks of equal
\* priority
C11_Witness ==
    /\ harness.op = "tasks"
    /\ harness.last.op = "get"
    /\ harness.prev.op = "get"
    /\ harness.last.result # NoTask
    /\ \E j, k \in DOMAIN harness.tasks :
          /\ j < k
          /\ harness.tasks[j] = harness.last.result
          /\ \A n \in {j, k} : IsPending(harness.heap[harness.tasks[n]])
          /\ Get(harness.heap[harness.tasks[j]], "priority", 0)
                = Get(harness.heap[harness.tasks[k]], "priority", 0)

\* C12: after mark_completed(tasks, t.id) for a task t that get_next_task
\* returned, the next get_next_task returns neither t nor any task of t's id
C12_CompletedNotSelectedAgain ==
    (/\ harness.op = "tasks"
     /\ harness.last.op = "get"
     /\ harness.prev.op = "mark"
     /\ harness.prev.of # NoTask) =>
        /\ harness.last.result # harness.prev.of
        /\ harness.last.result # NoTask =>
              Get(harness.heap[harness.last.result], "id", None)
                 # harness.prev.task_id

\* the selected task was marked while another pending task carried its id, and
\* get_next_task was called again
C12_Witness ==
    /\ harness.op = "tasks"
    /\ harness.last.op = "get"
    /\ harness.prev.op = "mark"
    /\ harness.prev.of # NoTask
    /\ \E r \in Range(harness.tasks) :
          /\ r # harness.prev.of
          /\ IsPending(harness.prev.heap[r])
          /\ Get(harness.prev.heap[r], "id", None) = harness.prev.task_id

\* C18: mark_completed(tasks, task_id) sets the status of every task whose id
\* is task_id to completed and changes nothing else: the other fields of those
\* tasks, every other task, the order and the length of the list stay as they
\* were, and with no task of that id nothing changes
C18_MarkCompletedFrame ==
    (harness.op = "tasks" /\ harness.last.op = "mark") =>
        LET hb == harness.last.heap
            h == harness.heap
        IN  /\ harness.tasks = harness.last.tasks
            /\ DOMAIN h = DOMAIN hb
            /\ \A r \in DOMAIN hb :
                  IF Get(hb[r], "id", None) = harness.last.task_id
                  THEN /\ DOMAIN h[r] = DOMAIN hb[r] \cup {"status"}
                       /\ h[r].status = "completed"
                       /\ \A k \in DOMAIN hb[r] \ {"status"} : h[r][k] = hb[r][k]
                  ELSE h[r] = hb[r]
            /\ (\A r \in DOMAIN hb :
                   Get(hb[r], "id", None) # harness.last.task_id) => h = hb

\* a pending task with a priority was marked while a pending task of another
\* id stood in the list
C18_Witness ==
    /\ harness.op = "tasks"
    /\ harness.last.op = "mark"
    /\ \E r, o \in DOMAIN harness.heap :
          /\ Get(harness.last.heap[r], "id", None) = harness.last.task_id
          /\ IsPending(harness.last.heap[r])
          /\ "priority" \in DOMAIN harness.last.heap[r]
          /\ harness.heap[r].status = "completed"
          /\ "id" \in DOMAIN harness.heap[o]
          /\ harness.heap[o].id # harness.last.task_id
          /\ IsPending(harness.heap[o])

\* the similarity of the session at position i of the store to the query
\* searched for
FoundSimilarity(i) ==
    Jaccard(QueryWords(harness.found.query), QueryWords(short_term[i].query))

\* C13: find_relevant_history returns sessions in descending order of Jaccard
\* similarity to the query, and of two sessions of equal similarity the one
\* saved later comes first
C13_DescendingTiesLaterFirst ==
    (harness.op = "similar" /\ harness.found.op = "find") =>
        LET r == harness.found.sessions
        IN  \A i, j \in DOMAIN r :
               i < j =>
                  /\ SimilarityGeq(FoundSimilarity(r[i]), FoundSimilarity(r[j]))
                  /\ SimilarityGeq(FoundSimilarity(r[j]), FoundSimilarity(r[i]))
                        => r[i] > r[j]

\* C14: with "what is machine learning?", "quantum computing news" and "deep
\* learning tutorial" saved in this order, the search for "machine learning
\* basics" with top_k = 2 returns the first and the third session, not the
\* second
C14_MachineLearningExample ==
    (/\ harness.op = "similar"
     /\ harness.found.op = "find"
     /\ harness.found.query = <<"machine", "learning", "basics">>
     /\ harness.found.top_k = 2
     /\ get_summary(short_term) = <<<<"what", "is", "machine", "learning?">>,
                                    <<"quantum", "computing", "news">>,
                                    <<"deep", "learning", "tutorial">>>>) =>
        /\ Len(harness.found.sessions) = 2
        /\ Range(harness.found.sessions) = {1, 3}

\* that search made on that store, the third session ranked first
C14_Witness ==
    /\ harness.op = "similar"
    /\ harness.found.op = "find"
    /\ harness.found.query = <<"machine", "learning", "basics">>
    /\ harness.found.top_k = 2
    /\ get_summary(short_term) = <<<<"what", "is", "machine", "learning?">>,
                                   <<"quantum", "computing", "news">>,
                                   <<"deep", "learning", "tutorial">>>>
    /\ harness.found.sessions = <<3, 1>>

\* C15: for top_k >= 0 find_similar_queries returns min(top_k, number of
\* stored sessions) sessions, each of them stored and none twice, whatever
\* their similarity
C15_ReturnsMinTopK ==
    (harness.op = "similar" /\ harness.found.op = "find"
        /\ harness.found.top_k >= 0) =>
        LET r == harness.found.sessions
        IN  /\ Len(r) = Min(harness.found.top_k, Len(short_term))
            /\ \A i \in DOMAIN r : r[i] \in DOMAIN short_term
            /\ \A i, j \in DOMAIN r : r[i] = r[j] => i = j

\* a search with top_k above the number of stored sessions returning all of
\* them, one of similarity zero among them
C15_Witness ==
    /\ harness.op = "similar"
    /\ harness.found.op = "find"
    /\ Len(short_term) >= 2
    /\ harness.found.top_k > Len(short_term)
    /\ Len(harness.found.sessions) = Len(short_term)
    /\ \E i \in DOMAIN harness.found.sessions :
          FoundSimilarity(harness.found.sessions[i])[1] = 0
    /\ \E i \in DOMAIN harness.found.sessions :
          FoundSimilarity(harness.found.sessions[i])[1] > 0

\* C16: within a run every step leaves the earlier search_results as a prefix
\* of the new ones; a research step that executes a task adds exactly one
\* result, every other step none
C16_ResultsOnlyAppended ==
    [][(harness.op = "workflow" /\ pc \in Nodes) =>
          /\ Len(state'.search_results) >= Len(state.search_results)
          /\ SubSeq(state'.search_results, 1, Len(state.search_results))
                = state.search_results
          /\ state'.iteration = state.iteration + 1 =>
                /\ pc = "execute_research"
                /\ Len(state'.search_results) = Len(state.search_results) + 1
          /\ state'.iteration = state.iteration =>
                state'.search_results = state.search_results]_vars

\* a run whose second research step has added a result to a different one
C16_Witness ==
    /\ harness.op = "workflow"
    /\ pc \in Nodes
    /\ state.iteration = 2
    /\ Len(state.search_results) = 2
    /\ state.search_results[1] # state.search_results[2]

\* a working-memory item as a reader finds it: the task list of a "tasks" item
\* holds the task dicts themselves
StoredItem(item, h) ==
    IF item.type = "tasks"
    THEN [item EXCEPT !.content = [k \in DOMAIN item.content |->
                                      h[item.content[k]]]]
    ELSE item

\* C17: an item of working memory and a session of short-term memory read the
\* same in every later state, as long as they are not evicted or cleared
C17_EntriesNeverMutated ==
    [][harness.op = "workflow" =>
          /\ Len(working) < wm_size =>
                \A i \in DOMAIN working :
                   /\ i \in DOMAIN working'
                   /\ StoredItem(working'[i], heap') = StoredItem(working[i], heap)
          /\ Len(short_term) < st_size =>
                \A i \in DOMAIN short_term :
                   /\ i \in DOMAIN short_term'
                   /\ short_term'[i] = short_term[i]]_vars

\* C19: a research step that executes a task leaves the state's task list
\* with the same tasks in the same order, and changes nothing in them but the
\* status of the selected task, set to completed
C19_TasksOnlyChangeStatus ==
    [][(/\ harness.op = "workflow"
        /\ pc = "execute_research"
        /\ pc' \in Nodes
        /\ state'.iteration = state.iteration + 1) =>
          /\ state'.tasks = state.tasks
          /\ DOMAIN heap' = DOMAIN heap
          /\ \E next_task \in Range(state.tasks) :
                /\ IsPending(heap[next_task])
                /\ \A r \in DOMAIN heap :
                      IF r \in Range(state.tasks)
                         /\ Get(heap[r], "id", None) = heap[next_task].id
                      THEN heap'[r] = [heap[r] EXCEPT !.status = "completed"]
                      ELSE heap'[r] = heap[r]]_vars

\* C20: clear_working_memory empties working memory and leaves short-term
\* memory as it is; reset empties both; the capacities stay, and the entries
\* inserted since then are held as a fresh store of that capacity holds them
C20_ClearAndReset ==
    /\ [][harness.op = "memory" =>
             /\ harness'.last = "clear_working_memory" =>
                   /\ working' = <<>>
                   /\ short_term' = short_term
             /\ harness'.last = "reset" =>
                   /\ working' = <<>>
                   /\ short_term' = <<>>
             /\ wm_size' = wm_size
             /\ st_size' = st_size]_vars
    /\ []((harness.op = "memory" /\ harness.cleared) =>
             /\ working = Suffix(harness.wm_log,
                                 Min(wm_size, Len(harness.wm_log)))
             /\ harness.last = "reset" => short_term = <<>>
             /\ harness.last = "clear_working_memory" => working = <<>>)

\* working memory was cleared while both stores were full, and has since been
\* filled beyond its capacity again, short-term memory still full
C20_Witness ==
    /\ harness.op = "memory"
    /\ harness.cleared
    /\ harness.last = "add"
    /\ wm_size > 0
    /\ Len(harness.wm_log) > wm_size
    /\ st_size > 0
    /\ Len(short_term) = st_size
    /\ Len(harness.st_log) > st_size

\* C21: the snapshot get_context returned holds the min(3, n) sessions saved
\* last, in insertion order, and all working-memory items of that moment, in
\* insertion order; insertions made afterwards do not change it
C21_ContextSnapshot ==
    (harness.op = "context" /\ harness.snapshot.op = "get_context") =>
        LET c == harness.snapshot.context
            wm == harness.snapshot.working
            st == harness.snapshot.short_term
        IN  /\ c.short_term_memory = Suffix(st, Min(RecentSessions, Len(st)))
            /\ c.working_memory = wm

\* a snapshot taken of a full short-term memory and a non-empty working
\* memory, both of which have received entries since
C21_Witness ==
    /\ harness.op = "context"
    /\ harness.snapshot.op = "get_context"
    /\ Len(harness.snapshot.short_term) = RecentSessions + 1
    /\ Len(harness.snapshot.working) >= 1
    /\ short_term # harness.snapshot.short_term
    /\ working # harness.snapshot.working
    /\ Len(harness.snapshot.context.short_term_memory) = RecentSessions

\* C22: get_recent(n) returns the min(n, len) items added last, in insertion
\* order, for every n >= 0; get_recent() returns all items
C22_GetRecentReturnsLastN ==
    harness.op = "context" =>
        /\ harness.recent.op = "get_recent" =>
              harness.recent.items
                 = Suffix(working, Min(harness.recent.n, Len(working)))
        /\ harness.recent.op = "get_recent_all" =>
              harness.recent.items = working

\* C23: when the model's answer to the update prompt cannot be parsed,
\* update_tasks does not raise and returns the current task list unchanged
C23_UpdateTasksFallsBack ==
    (/\ harness.op = "tasks"
     /\ harness.updated.op = "update"
     /\ harness.updated.response.kind = "text") =>
        /\ harness.updated.result.outcome = "returned"
        /\ harness.updated.result.current
        /\ harness.updated.result.tasks
              = [i \in DOMAIN harness.tasks |-> harness.heap[harness.tasks[i]]]
        /\ harness.heap = harness.updated.heap
        /\ harness.tasks = harness.updated.tasks

\* C24: a retrieval failure does not abort the session: when add_documents
\* or retrieve_context raises in the retrieval stage, the run still reaches
\* the report stage with an empty retrieval context and ends with error None.
C24_RetrievalFailureDegrades ==
    (/\ harness.op = "workflow"
     /\ pc = "returned"
     /\ produced.raised = "index unavailable") =>
        /\ visits["generate_report"] > 0
        /\ Get(final, "rag_context", None) = ""
        /\ final.error = None

\* the tool that the task of this type calls failed under env
ToolFailed(task, env) ==
    \/ Get(task, "type", "search") = "search" /\ env.search = "error"
    \/ /\ Get(task, "type", "search") = "fetch"
       /\ env.fetch = "error"
       /\ Get(task, "urls", <<>>) # <<>>

\* the result carries error text, at the top or in one of its fetched pages
ShowsError(result) ==
    \/ "error" \in DOMAIN result
    \/ /\ "content" \in DOMAIN result
       /\ \E i \in DOMAIN result.content : "error" \in DOMAIN result.content[i]

\* C25: when the search or fetch tool fails during a research step, the
\* step does not raise, its result is appended to the results, the task is
\* marked completed, the run continues, and the result shows the failure as
\* error text.
C25_ToolFailureSurfaced ==
    [][\A env \in ToolEnvs :
         LET tasks == Get(state, "tasks", <<>>)
             next_task == get_next_task(heap, tasks)
         IN  (/\ pc = "execute_research"
              /\ next_task # NoTask
              /\ "id" \in DOMAIN heap[next_task]
              /\ ToolFailed(heap[next_task], env)
              /\ pc' \in Nodes
              /\ Len(state'.search_results) = Len(state.search_results) + 1
              /\ state'.search_results[Len(state'.search_results)]
                    = execute_task(heap[next_task], env)) =>
                /\ heap'[next_task].status = "completed"
                /\ ShowsError(execute_task(heap[next_task], env))]_vars

\* C26: when the report stage produces no text (an empty report), the run
\* ends as a workflow error: the final state has error set and no session
\* record is saved for the run.
C26_EmptyReportIsError ==
    (/\ harness.op = "workflow"
     /\ pc = "returned"
     /\ produced.raised = None
     /\ produced.report = "") =>
        /\ final.error # None
        /\ short_term = before

\* the ids of the tasks of `refs` that are not completed
OpenIds(h, refs) ==
    {h[refs[i]].id : i \in {j \in DOMAIN refs :
                               /\ "id" \in DOMAIN h[refs[j]]
                               /\ Get(h[refs[j]], "status", None) # "completed"}}

\* C27: the task queue selects only runnable tasks: a task is never selected
\* for execution while a task listed in its dependencies is not completed.
C27_SelectsOnlyRunnable ==
    (/\ harness.op = "workflow"
     /\ pc = "execute_research") =>
        LET tasks == Get(state, "tasks", <<>>)
            next_task == get_next_task(heap, tasks)
        IN  next_task # NoTask =>
               Get(heap[next_task], "dependencies", {})
                   \cap OpenIds(heap, tasks) = {}

\* C28: working memory is per-session: when runs follow one another on the
\* same system instance, working memory holds no item of an earlier run at
\* the moment the plan stage reads the memory context. Nothing is added in
\* a run before its plan stage, so every item present then is an earlier
\* run's.
C28_WorkingMemoryPerSession ==
    (/\ harness.op = "workflow"
     /\ pc = "plan"
     /\ runs > 1) => working = <<>>

\* session r has returned with error None
SessionSucceeded(r) == pc[r] = "returned" /\ final[r].error = None

C30_PlanSetOnce ==
    /\ [][/\ (harness.op = "workflow" /\ pc = "plan" /\ produced'.raised = None) =>
                /\ state.plan = EmptyDict
                /\ state'.plan = produced'.plan
          /\ (harness.op = "workflow" /\ pc \in Nodes \ {"plan"}) =>
                /\ state'.plan = state.plan
                /\ produced'.plan = produced.plan]_vars
    /\ []((harness.op = "workflow" /\ pc = "returned" /\ produced.raised = None) =>
             /\ final.plan = produced.plan
             /\ produced.report_plan = produced.plan
             /\ produced.saved =>
                   short_term[Len(short_term)].plan = produced.plan)

\* a run with a research step has returned without a raise and saved its
\* session, with the plan of the plan stage
C30_Witness ==
    /\ harness.op = "workflow"
    /\ pc = "returned"
    /\ produced.raised = None
    /\ produced.saved
    /\ visits["execute_research"] > 0
    /\ final.plan = [objective |-> "O2", search_queries |-> <<>>]

\* C31: the iteration counter respects the cap: for every configured
\* max_iterations >= 0 and every task list, iteration <= max_iterations in
\* every state of a run.
C31_IterationWithinCap ==
    (harness.op = "workflow" /\ pc \in Nodes \cup {"returned"}) =>
        /\ Get(state, "iteration", 0) <= config.max_iterations
        /\ Get(state, "iteration", 0) <= Get(state, "max_iterations", 0)

\* C32: fetched page content is bounded: every page content a fetch task
\* returns has length at most the maximum length, for every page the fetch
\* tool retrieves.
C32_FetchedContentBounded ==
    (harness.op = "fetch" /\ harness.result # NoCall) =>
        \A i \in DOMAIN harness.result.content :
            "content" \in DOMAIN harness.result.content[i] =>
                Len(harness.result.content[i].content) <= MaxContentLength

KnownTypes == {"search", "fetch", "analyze"}

\* C33: a task whose type is not search, fetch or analyze does not abort the
\* run: the research step returns a result carrying an error field, marks
\* the task completed, appends the result to the results and increases
\* iteration by one.
C33_UnknownTypeNotFatal ==
    [][LET tasks == Get(state, "tasks", <<>>)
           next_task == get_next_task(heap, tasks)
       IN  (/\ harness.op = "workflow"
            /\ pc = "execute_research"
            /\ next_task # NoTask
            /\ "id" \in DOMAIN heap[next_task]
            /\ Get(heap[next_task], "type", "search") \notin KnownTypes) =>
               /\ pc' \in Nodes
               /\ produced'.raised = None
               /\ Len(state'.search_results) = Len(state.search_results) + 1
               /\ "error" \in DOMAIN state'.search_results[Len(state'.search_results)]
               /\ state'.search_results[Len(state'.search_results)].task_id
                     = heap[next_task].id
               /\ heap'[next_task].status = "completed"
               /\ state'.iteration = state.iteration + 1]_vars

\* a run has executed the synthesize task t5 and returned without error
C33_Witness ==
    /\ harness.op = "workflow"
    /\ pc = "returned"
    /\ final.error = None
    /\ \E i \in DOMAIN final.search_results :
          /\ "error" \in DOMAIN final.search_results[i]
          /\ final.search_results[i].task_id = "t5"
    /\ \E i \in DOMAIN final.tasks :
          /\ heap[final.tasks[i]].type = "synthesize"
          /\ heap[final.tasks[i]].status = "completed"

\* C34: a MemoryManager constructed with working_memory_size = w and
\* short_term_memory_size = s has a working memory of capacity w and a
\* short-term memory of capacity s, for every w >= 0 and s >= 0; the
\* defaults are used only when no size is given.
C34_CapacityAsConfigured ==
    harness.op = "construct" =>
        /\ IF harness.working_memory_size = <<>>
           THEN wm_size = DefaultWorkingSize
           ELSE /\ wm_size = harness.working_memory_size[1]
                /\ Len(working) <= harness.working_memory_size[1]
        /\ IF harness.short_term_memory_size = <<>>
           THEN st_size = DefaultShortTermSize
           ELSE /\ st_size = harness.short_term_memory_size[1]
                /\ Len(short_term) <= harness.short_term_memory_size[1]

\* every task of the list has an id and no two task dicts share one
UniqueIds(h, refs) ==
    /\ \A i \in DOMAIN refs : "id" \in DOMAIN h[refs[i]]
    /\ \A i, j \in DOMAIN refs :
          h[refs[i]].id = h[refs[j]].id => refs[i] = refs[j]

\* the number of entries of the list whose status is completed
CompletedCount(h, refs) ==
    Cardinality({i \in DOMAIN refs : Get(h[refs[i]], "status", None) = "completed"})

\* C35: in every state of a run the number of results in search_results
\* equals iteration and, when task ids are unique, the number of tasks of
\* the state whose status is completed.
C35_ResultsMatchIteration ==
    (harness.op = "workflow" /\ pc \in Nodes \cup {"returned"}) =>
        /\ Len(Get(state, "search_results", <<>>)) = Get(state, "iteration", 0)
        /\ UniqueIds(heap, Get(state, "tasks", <<>>)) =>
              Len(Get(state, "search_results", <<>>))
                 = CompletedCount(heap, Get(state, "tasks", <<>>))

\* C36: each task is executed at most once per run: for a task list with
\* unique ids, the task a research step executes is pending before the step
\* and completed after it, and a completed task never becomes pending again.
C36_ExecutedAtMostOnce ==
    [][harness.op = "workflow" =>
         /\ \A r \in DOMAIN heap :
               Get(heap[r], "status", None) = "completed" =>
                   /\ r \in DOMAIN heap'
                   /\ Get(heap'[r], "status", None) = "completed"
         /\ LET tasks == Get(state, "tasks", <<>>)
                next_task == get_next_task(heap, tasks)
            IN  (/\ pc = "execute_research"
                 /\ next_task # NoTask
                 /\ UniqueIds(heap, tasks)
                 /\ produced'.raised = None) =>
                    /\ heap[next_task].status = "pending"
                    /\ heap'[next_task].status = "completed"
                    /\ \A r \in DOMAIN heap :
                          r # next_task => heap'[r] = heap[r]]_vars

\* a run has executed two tasks with different ids, one step each
C36_Witness ==
    /\ harness.op = "workflow"
    /\ pc = "returned"
    /\ final.error = None
    /\ Len(final.search_results) = 2
    /\ UniqueIds(heap, final.tasks)
    /\ \E i, j \in DOMAIN final.tasks :
          /\ final.tasks[i] # final.tasks[j]
          /\ heap[final.tasks[i]].status = "completed"
          /\ heap[final.tasks[j]].status = "completed"

\* the task dicts of the list that are pending
PendingRefs(h, refs) == {refs[i] : i \in {j \in DOMAIN refs : IsPending(h[refs[j]])}}

Priority(t) == Get(t, "priority", 0)

\* C37: tasks are executed in priority order over the whole run. Every
\* research step executes a task whose priority is at least that of every
\* pending task, changes no priority and leaves pending only tasks that
\* were pending before it other than the executed one; so the priorities of
\* the tasks executed by successive steps never increase, and the tasks
\* pending when the loop stops have priority at most that of every executed
\* task.
C37_PriorityOrder ==
    [][LET tasks == Get(state, "tasks", <<>>)
           next_task == get_next_task(heap, tasks)
       IN  (/\ harness.op = "workflow"
            /\ pc = "execute_research"
            /\ next_task # NoTask
            /\ produced'.raised = None) =>
               /\ \A r \in PendingRefs(heap, tasks) :
                     Priority(heap[r]) <= Priority(heap[next_task])
               /\ \A r \in DOMAIN heap : Priority(heap'[r]) = Priority(heap[r])
               /\ PendingRefs(heap', state'.tasks)
                     \subseteq PendingRefs(heap, tasks) \ {next_task}]_vars

\* the iteration cap has stopped the loop after the task of priority 5 was
\* executed, with the task of priority 3 listed before it still pending
C37_Witness ==
    /\ harness.op = "workflow"
    /\ pc = "returned"
    /\ final.error = None
    /\ final.iteration = 1
    /\ Len(final.tasks) > 1
    /\ heap[final.tasks[1]].status = "pending"
    /\ heap[final.tasks[1]].priority = 3
    /\ heap[final.tasks[2]].status = "completed"
    /\ heap[final.tasks[2]].priority = 5

\* C38: with memory_enabled false a run leaves the memory untouched: no
\* step of a run, successful or failed, changes working memory or
\* short-term memory, and the plan stage gets no memory context.
C38_DisabledMemoryUntouched ==
    /\ [][(harness.op = "workflow" /\ ~config.memory_enabled) =>
             /\ working' = working
             /\ short_term' = short_term]_vars
    /\ []((/\ harness.op = "workflow"
           /\ ~config.memory_enabled
           /\ pc \in Nodes \cup {"returned"}) =>
             /\ Get(state, "memory_context", EmptyDict) = EmptyDict
             /\ short_term = before
             /\ pc = "returned" => Get(final, "memory_context", EmptyDict) = EmptyDict)

\* a run with memory disabled has executed a task and returned its report
C38_Witness ==
    /\ harness.op = "workflow"
    /\ ~config.memory_enabled
    /\ pc = "returned"
    /\ final.error = None
    /\ final.report = "report O"
    /\ final.search_results # <<>>
    /\ working = <<>>
    /\ short_term = <<>>

\* C39: the state returned by a failed run equals the initial state except
\* for error and completed: whichever stage raised and however many research
\* steps had succeeded, the returned plan, tasks, search_results, documents
\* and report are empty and iteration is 0.
C39_FailedRunReturnsInitial ==
    (harness.op = "workflow" /\ pc = "returned" /\ final.error # None) =>
        /\ final.query = state.query
        /\ final.plan = EmptyDict
        /\ final.tasks = <<>>
        /\ final.search_results = <<>>
        /\ final.documents = <<>>
        /\ final.report = ""
        /\ final.rag_context = ""
        /\ final.memory_context = EmptyDict
        /\ final.iteration = 0
        /\ final.max_iterations = config.max_iterations
        /\ final.completed = TRUE
        /\ final.error = produced.raised

\* the report stage raised after a research step had produced a result
C39_Witness ==
    /\ harness.op = "workflow"
    /\ pc = "returned"
    /\ final.error = "report failed"
    /\ state.search_results # <<>>
    /\ state.iteration > 0
    /\ final.search_results = <<>>

====
